---- MODULE Spec2Model ----
(***************************************************************************)
(* Model of automodwrap (src/main.py): the ExportedNamesCollector walk     *)
(* over a libclang declaration tree, the ExportedNameMap it builds, and    *)
(* generate_exports_from_name_map, which renders the map as text.          *)
(*                                                                         *)
(* Strings are sequences of one-character strings, so that the regular     *)
(* expressions, str.lower and the f-strings are computed, not assumed.     *)
(***************************************************************************)
EXTENDS Integers, Sequences, FiniteSets, TLC

\* Number of declaration nodes below the translation unit.
MaxNodes == 4

-----------------------------------------------------------------------------
\* Characters

UpperSeq ==
  <<"A","B","C","D","E","F","G","H","I","J","K","L","M",
    "N","O","P","Q","R","S","T","U","V","W","X","Y","Z">>

LowerSeq ==
  <<"a","b","c","d","e","f","g","h","i","j","k","l","m",
    "n","o","p","q","r","s","t","u","v","w","x","y","z">>

DigitSeq == <<"0","1","2","3","4","5","6","7","8","9">>

\* The characters the model uses, in code point order.
AsciiOrder ==
  <<"\n", " ", "+", ".", "/">> \o DigitSeq \o <<":", ";">> \o UpperSeq
    \o <<"^", "_">> \o LowerSeq \o <<"{", "}">>

Range(s) == { s[i] : i \in 1..Len(s) }

Ord(c) == CHOOSE i \in 1..Len(AsciiOrder) : AsciiOrder[i] = c

IsUpper(c) == c \in Range(UpperSeq)
IsLower(c) == c \in Range(LowerSeq)
IsDigit(c) == c \in Range(DigitSeq)
\* \w of the re module, on ASCII.
IsWord(c) == IsUpper(c) \/ IsLower(c) \/ IsDigit(c) \/ c = "_"

\* str.lower, one character.
LowerChar(c) ==
  IF IsUpper(c) THEN LowerSeq[CHOOSE i \in 1..26 : UpperSeq[i] = c] ELSE c

\* str.lower
StrLower(s) == [i \in 1..Len(s) |-> LowerChar(s[i])]

\* s < t for Python strings: lexicographic by code point.
RECURSIVE StrLess(_, _)
StrLess(s, t) ==
  IF t = <<>> THEN FALSE
  ELSE IF s = <<>> THEN TRUE
  ELSE IF s[1] # t[1] THEN Ord(s[1]) < Ord(t[1])
  ELSE StrLess(Tail(s), Tail(t))

StartsWith(s, p) == Len(p) <= Len(s) /\ SubSeq(s, 1, Len(p)) = p
EndsWith(s, p) ==
  Len(p) <= Len(s) /\ SubSeq(s, Len(s) - Len(p) + 1, Len(s)) = p

-----------------------------------------------------------------------------
\* Regular expressions of the collector

\* One atom of a pattern against one character: "." is any character but a
\* newline, any other character of the patterns used here is itself.
AtomMatches(a, c) == IF a = "." THEN c # "\n" ELSE a = c

\* The atoms of pat match text from position i on.
MatchAt(pat, text, i) ==
  /\ i + Len(pat) - 1 <= Len(text)
  /\ \A k \in 1..Len(pat) : AtomMatches(pat[k], text[i + k - 1])

\* re.compile(pat).search(text) for a pattern of an optional leading "^"
\* followed by literal characters and ".".
RegexSearch(pat, text) ==
  IF pat # <<>> /\ pat[1] = "^"
    THEN MatchAt(Tail(pat), text, 1)
    ELSE \E i \in 1..(Len(text) + 1) : MatchAt(pat, text, i)

\* _IDENTIFIER_REGEX: (^[a-zA-Z_][a-zA-Z0-9_]*$|^operator\b)
IDENTIFIER_REGEX(s) ==
  \/ /\ Len(s) >= 1
     /\ IsUpper(s[1]) \/ IsLower(s[1]) \/ s[1] = "_"
     /\ \A i \in 2..Len(s) : IsWord(s[i])
  \/ /\ StartsWith(s, <<"o","p","e","r","a","t","o","r">>)
     /\ Len(s) = 8 \/ ~IsWord(s[9])

\* Default ignored_namespaces_regex:
\* (^_|^(std|[Dd]etails?|[Pp]rivate|[Ii]mpl|[Ii]ntern(al)?)$)
ignored_namespaces_regex(s) ==
  \/ StartsWith(s, <<"_">>)
  \/ s = <<"s","t","d">>
  \/ /\ s # <<>>
     /\ <<LowerChar(s[1])>> \o Tail(s) \in
          { <<"d","e","t","a","i","l">>, <<"d","e","t","a","i","l","s">>,
            <<"p","r","i","v","a","t","e">>, <<"i","m","p","l">>,
            <<"i","n","t","e","r","n">>,
            <<"i","n","t","e","r","n","a","l">> }
     /\ s[1] \in {"d","D","p","P","i","I"}

\* Default ignored_names_regex: (^_|(^[Ii]mpl|[_0-9]impl|[a-z0-9_]Impl)$)
ignored_names_regex(s) ==
  \/ StartsWith(s, <<"_">>)
  \/ s \in { <<"I","m","p","l">>, <<"i","m","p","l">> }
  \/ /\ EndsWith(s, <<"i","m","p","l">>)
     /\ Len(s) >= 5
     /\ s[Len(s) - 4] = "_" \/ IsDigit(s[Len(s) - 4])
  \/ /\ EndsWith(s, <<"I","m","p","l">>)
     /\ Len(s) >= 5
     /\ IsLower(s[Len(s) - 4]) \/ IsDigit(s[Len(s) - 4]) \/ s[Len(s) - 4] = "_"

-----------------------------------------------------------------------------
\* Declaration tree (what cindex hands to the collector)

COMMON_DECL_KINDS ==
  { "STRUCT_DECL", "UNION_DECL", "CLASS_DECL", "ENUM_DECL", "FUNCTION_DECL",
    "TYPEDEF_DECL", "FUNCTION_TEMPLATE", "CLASS_TEMPLATE", "NAMESPACE_ALIAS",
    "TYPE_ALIAS_DECL" }

\* cursor.kind.is_declaration() for the kinds the model uses.
IsDeclaration(kind) ==
  kind \in COMMON_DECL_KINDS \cup {"NAMESPACE", "LINKAGE_SPEC"}

\* cursor.location.file is None
None == <<"None">>

HeaderInside == <<"i", "/", "h">>
HeaderOutside == <<"u", "/", "h">>

\* The -I directory of the headers above.
IncludeDir == <<"i">>

Cursor(k, s, f) == [kind |-> k, spelling |-> s, file |-> f]

\* The declarations a header may hold at any place of its tree.
Decls ==
  { Cursor("NAMESPACE", <<"a">>, HeaderInside),
    Cursor("NAMESPACE", <<"B">>, HeaderInside),
    Cursor("NAMESPACE", <<"s","t","d">>, HeaderInside),
    Cursor("NAMESPACE", <<>>, HeaderInside),
    Cursor("FUNCTION_DECL", <<"a">>, HeaderInside),
    Cursor("STRUCT_DECL", <<"B">>, HeaderInside),
    Cursor("CLASS_DECL", <<"a","I","m","p","l">>, HeaderInside),
    Cursor("LINKAGE_SPEC", <<>>, HeaderInside),
    Cursor("NAMESPACE", <<"a">>, HeaderOutside),
    Cursor("TYPEDEF_DECL", <<"_","t">>, None) }

\* A cursor that is no declaration (the initializer of a variable, say).
Exprs == { Cursor("UNEXPOSED_EXPR", <<>>, HeaderInside) }

\* An overloaded operator: its spelling is no identifier, but starts with
\* the word operator.
Operators ==
  { Cursor("FUNCTION_DECL", <<"o","p","e","r","a","t","o","r","+">>, HeaderInside) }

Nodes == 1..MaxNodes

\* The translation unit's cursor is node 0. Nodes come in chains of three
\* below it: 1 > 2 > 3, 4 > 5 > 6, ...
Parent(n) == IF n % 3 = 1 THEN 0 ELSE n - 1

RECURSIVE SetToSortedSeq(_)
SetToSortedSeq(S) ==
  IF S = {} THEN <<>>
  ELSE LET m == CHOOSE x \in S : \A y \in S : x <= y
       IN  <<m>> \o SetToSortedSeq(S \ {m})

ChildrenTable ==
  [n \in 0..MaxNodes |-> SetToSortedSeq({ c \in Nodes : Parent(c) = n })]

\* cursor.get_children(), in source order.
Children(n) == ChildrenTable[n]

\* n's ancestors below the translation unit, outermost first.
RECURSIVE AncestorSeq(_)
AncestorSeq(n) ==
  IF Parent(n) = 0 THEN <<>> ELSE Append(AncestorSeq(Parent(n)), Parent(n))

AncestorTable == [n \in Nodes |-> AncestorSeq(n)]

\* The nodes between n and the translation unit.
Ancestors(n) == Range(AncestorTable[n])

DescendantTable == [n \in Nodes |-> { m \in Nodes : n \in Ancestors(m) }]

Descendants(n) == DescendantTable[n]

-----------------------------------------------------------------------------
VARIABLES
  tree,            \* translation_unit: node -> cursor
  include_path,    \* main's include_path argument
  name_map,        \* the ExportedNameMap tree: namespace path -> node
  name_map_stack,  \* collector._name_map_stack, as namespace paths
  frames,          \* the Python call stack of _traverse/_traverse_children
  pc,              \* where main is
  trace,           \* the _traverse calls made so far, in order
  out,             \* what was written to out_file, one entry per write
  fqn_prefix_stack,\* generate_exports_from_name_map's fqn_prefix_stack
  gen_frames       \* the Python call stack of _generate_exports_impl

vars == <<tree, include_path, name_map, name_map_stack, frames, pc, trace,
          out, fqn_prefix_stack, gen_frames>>

input == <<tree, include_path>>
collector == <<name_map, name_map_stack, frames, trace>>
generator == <<out, fqn_prefix_stack, gen_frames>>

\* ExportedNameMap(): top_level a set, qualified a dict (keys in insertion
\* order; the value of key k of the map at path p is the map at p \o <<k>>).
ExportedNameMap == [top_level |-> {}, qualified |-> <<>>]

Root == <<>>

\* collector._include_paths_regex, as main builds it: f'^{include_path}'
include_paths_regex == <<"^">> \o include_path

\* main has parsed the header and constructed the collector.
Constructed ==
  /\ name_map = (Root :> ExportedNameMap)
  /\ name_map_stack = <<Root>>
  /\ frames = <<>>
  /\ pc = "ready"
  /\ trace = <<>>
  /\ out = <<>>
  /\ fqn_prefix_stack = <<>>
  /\ gen_frames = <<>>

\* C++ has namespaces and linkage specifications at namespace scope only:
\* never as members of a class, a function or another leaf declaration.
WellFormed(t) ==
  \A n \in Nodes :
    (Parent(n) # 0 /\ t[Parent(n)].kind \in COMMON_DECL_KINDS) =>
      t[n].kind \notin {"NAMESPACE", "LINKAGE_SPEC"}

Init ==
  /\ tree \in [Nodes -> Decls]
  /\ WellFormed(tree)
  /\ include_path = IncludeDir
  /\ Constructed

-----------------------------------------------------------------------------
\* The collector

Top == frames[Len(frames)]
HasNext == Top.next <= Len(Children(Top.node))
Child == Children(Top.node)[Top.next]
Called == pc = "collect" /\ frames # <<>> /\ HasNext
Advanced == [frames EXCEPT ![Len(frames)].next = @ + 1]
CurrentScope == name_map_stack[Len(name_map_stack)]
Log(result) ==
  Append(trace, [node |-> Child, scope |-> CurrentScope, result |-> result])

\* The guard of line 79 lets the cursor through.
Included(c) ==
  /\ IsDeclaration(c.kind)
  /\ c.file # None
  /\ RegexSearch(include_paths_regex, c.file)

Named(c) == c.kind = "NAMESPACE" \/ c.kind \in COMMON_DECL_KINDS

\* collect_names: _traverse_children(translation_unit.cursor)
CollectNames ==
  /\ pc = "ready"
  /\ pc' = "collect"
  /\ frames' = <<[node |-> 0, next |-> 1, ret |-> "collect_names"]>>
  /\ UNCHANGED <<input, generator, name_map, name_map_stack, trace>>

\* Lines 79-80 with the return left out: the walk falls through to line 108.
TraverseExcludedRecursing ==
  /\ Called
  /\ LET c == tree[Child] IN
       \/ ~IsDeclaration(c.kind)
       \/ c.file # None /\ ~RegexSearch(include_paths_regex, c.file)
  /\ frames' = Append(Advanced, [node |-> Child, next |-> 1, ret |-> "other"])
  /\ trace' = Log("excluded")
  /\ UNCHANGED <<input, generator, name_map, name_map_stack, pc>>

\* _traverse, lines 79-80: not a declaration, or a file outside the pattern.
TraverseExcluded ==
  /\ Called
  /\ LET c == tree[Child] IN
       \/ ~IsDeclaration(c.kind)
       \/ c.file # None /\ ~RegexSearch(include_paths_regex, c.file)
  /\ frames' = Advanced
  /\ trace' = Log("excluded")
  /\ UNCHANGED <<input, generator, name_map, name_map_stack, pc>>

\* _traverse, line 79: cursor.location.file is None, so .name raises
\* AttributeError, which nothing catches.
TraverseNoFile ==
  /\ Called
  /\ IsDeclaration(tree[Child].kind)
  /\ tree[Child].file = None
  /\ pc' = "error"
  /\ trace' = Log("raised")
  /\ UNCHANGED <<input, generator, name_map, name_map_stack, frames>>

\* _traverse, lines 83-84
TraverseInvalidSpelling ==
  /\ Called
  /\ Included(tree[Child])
  /\ Named(tree[Child])
  /\ ~IDENTIFIER_REGEX(tree[Child].spelling)
  /\ frames' = Advanced
  /\ trace' = Log("invalid")
  /\ UNCHANGED <<input, generator, name_map, name_map_stack, pc>>

\* Lines 89-90 with the return left out and the children visited in the
\* enclosing scope.
TraverseIgnoredNamespaceRecursing ==
  /\ Called
  /\ Included(tree[Child])
  /\ tree[Child].kind = "NAMESPACE"
  /\ IDENTIFIER_REGEX(tree[Child].spelling)
  /\ ignored_namespaces_regex(tree[Child].spelling)
  /\ frames' = Append(Advanced, [node |-> Child, next |-> 1, ret |-> "other"])
  /\ trace' = Log("ignored")
  /\ UNCHANGED <<input, generator, name_map, name_map_stack, pc>>

\* _traverse, lines 89-90
TraverseIgnoredNamespace ==
  /\ Called
  /\ Included(tree[Child])
  /\ tree[Child].kind = "NAMESPACE"
  /\ IDENTIFIER_REGEX(tree[Child].spelling)
  /\ ignored_namespaces_regex(tree[Child].spelling)
  /\ frames' = Advanced
  /\ trace' = Log("ignored")
  /\ UNCHANGED <<input, generator, name_map, name_map_stack, pc>>

\* The map tree with the map at path p, and all below it, replaced by an
\* empty ExportedNameMap.
Reset(nm, p) ==
  [q \in { r \in DOMAIN nm : ~StartsWith(r, p) } \cup {p} |->
     IF q = p THEN ExportedNameMap ELSE nm[q]]

HasKey(nm, scope, s) == \E i \in 1..Len(nm[scope].qualified) :
                           nm[scope].qualified[i] = s

\* Lines 92-93 without the test of line 92: a fresh map at every opening.
AlwaysCreate(nm, scope, s) ==
  Reset(IF HasKey(nm, scope, s) THEN nm
        ELSE [nm EXCEPT ![scope].qualified = Append(@, s)],
        Append(scope, s))

\* Lines 92-93: qualified[spelling] = ExportedNameMap() unless the key exists.
FetchOrCreate(nm, scope, s) ==
  IF HasKey(nm, scope, s) THEN nm
  ELSE (Append(scope, s) :> ExportedNameMap)
         @@ [nm EXCEPT ![scope].qualified = Append(@, s)]

\* _traverse, lines 92-96: enter a namespace.
TraverseNamespace ==
  /\ Called
  /\ Included(tree[Child])
  /\ tree[Child].kind = "NAMESPACE"
  /\ IDENTIFIER_REGEX(tree[Child].spelling)
  /\ ~ignored_namespaces_regex(tree[Child].spelling)
  /\ name_map' = FetchOrCreate(name_map, CurrentScope, tree[Child].spelling)
  /\ name_map_stack' =
       Append(name_map_stack, Append(CurrentScope, tree[Child].spelling))
  /\ frames' = Append(Advanced, [node |-> Child, next |-> 1, ret |-> "namespace"])
  /\ trace' = Log("entered")
  /\ UNCHANGED <<input, generator, pc>>

\* _traverse, lines 100-101
TraverseIgnoredName ==
  /\ Called
  /\ Included(tree[Child])
  /\ tree[Child].kind \in COMMON_DECL_KINDS
  /\ IDENTIFIER_REGEX(tree[Child].spelling)
  /\ ignored_names_regex(tree[Child].spelling)
  /\ frames' = Advanced
  /\ trace' = Log("ignored")
  /\ UNCHANGED <<input, generator, name_map, name_map_stack, pc>>

\* Line 103 assigning a fresh set instead of adding to the set.
ReplaceTopLevel(nm, scope, s) == [nm EXCEPT ![scope].top_level = {s}]

\* Line 103: current_name_map.top_level.add(cursor.spelling)
AddTopLevel(nm, scope, s) == [nm EXCEPT ![scope].top_level = @ \cup {s}]

\* Lines 103-105 with the return of line 105 left out: the walk falls through
\* to line 108.
TraverseLeafRecursing ==
  /\ Called
  /\ Included(tree[Child])
  /\ tree[Child].kind \in COMMON_DECL_KINDS
  /\ IDENTIFIER_REGEX(tree[Child].spelling)
  /\ ~ignored_names_regex(tree[Child].spelling)
  /\ name_map' = AddTopLevel(name_map, CurrentScope, tree[Child].spelling)
  /\ frames' = Append(Advanced, [node |-> Child, next |-> 1, ret |-> "other"])
  /\ trace' = Log("added")
  /\ UNCHANGED <<input, generator, name_map_stack, pc>>

\* _traverse, lines 103-105
TraverseLeaf ==
  /\ Called
  /\ Included(tree[Child])
  /\ tree[Child].kind \in COMMON_DECL_KINDS
  /\ IDENTIFIER_REGEX(tree[Child].spelling)
  /\ ~ignored_names_regex(tree[Child].spelling)
  /\ name_map' = AddTopLevel(name_map, CurrentScope, tree[Child].spelling)
  /\ frames' = Advanced
  /\ trace' = Log("added")
  /\ UNCHANGED <<input, generator, name_map_stack, pc>>

\* _traverse, line 108: any other declaration, recurse into the children.
TraverseOther ==
  /\ Called
  /\ Included(tree[Child])
  /\ ~Named(tree[Child])
  /\ frames' = Append(Advanced, [node |-> Child, next |-> 1, ret |-> "other"])
  /\ trace' = Log("passed")
  /\ UNCHANGED <<input, generator, name_map, name_map_stack, pc>>

Returning == pc = "collect" /\ frames # <<>> /\ ~HasNext

\* Line 97 left out.
ReturnNamespaceNoPop ==
  /\ Returning
  /\ Top.ret = "namespace"
  /\ frames' = SubSeq(frames, 1, Len(frames) - 1)
  /\ UNCHANGED <<input, generator, name_map, name_map_stack, pc, trace>>

\* _traverse, line 97: the children are done, pop the namespace's map.
ReturnNamespace ==
  /\ Returning
  /\ Top.ret = "namespace"
  /\ name_map_stack' = SubSeq(name_map_stack, 1, Len(name_map_stack) - 1)
  /\ frames' = SubSeq(frames, 1, Len(frames) - 1)
  /\ UNCHANGED <<input, generator, name_map, pc, trace>>

\* _traverse, line 108 returns.
ReturnOther ==
  /\ Returning
  /\ Top.ret = "other"
  /\ frames' = SubSeq(frames, 1, Len(frames) - 1)
  /\ UNCHANGED <<input, generator, name_map, name_map_stack, pc, trace>>

\* collect_names returns to main.
CollectReturn ==
  /\ Returning
  /\ Top.ret = "collect_names"
  /\ frames' = <<>>
  /\ pc' = "collected"
  /\ UNCHANGED <<input, generator, name_map, name_map_stack, trace>>

-----------------------------------------------------------------------------
\* The generator

\* sorted() without key=str.lower.
SortKeyExact(s) == s

\* key=str.lower of both sorted() calls.
SortKey(s) == StrLower(s)

\* x put into the sorted sequence srt behind every element whose key is not
\* greater: sorted() is stable.
RECURSIVE Insert(_, _)
Insert(x, srt) ==
  IF srt = <<>> THEN <<x>>
  ELSE IF StrLess(SortKey(x), SortKey(srt[1])) THEN <<x>> \o srt
  ELSE <<srt[1]>> \o Insert(x, Tail(srt))

RECURSIVE Sorted(_)
\* sorted(seq, key=...)
Sorted(seq) ==
  IF seq = <<>> THEN <<>>
  ELSE Insert(seq[Len(seq)], Sorted(SubSeq(seq, 1, Len(seq) - 1)))

\* The orders in which a Python set may be iterated.
IterationOrders(S) ==
  { q \in [1..Cardinality(S) -> S] : \A i, j \in DOMAIN q : q[i] = q[j] => i = j }

Using(fqn_prefix, name) ==
  <<"u","s","i","n","g"," ">> \o fqn_prefix \o name \o <<";","\n">>

NamespaceOpen(namespace) ==
  <<"n","a","m","e","s","p","a","c","e"," ">> \o namespace \o <<" ","{","\n">>

ExportOpen == <<"e","x","p","o","r","t"," ","{","\n">>
BlockClose == <<"}","\n">>
ExportClose == <<"}">>

GlobalPrefix == <<":",":">>

\* Line 41 without the enclosing prefix.
PushedPrefixBare(fqn_prefix, namespace) ==
  GlobalPrefix \o namespace \o <<":",":">>

\* Line 41: f'{fqn_prefix}{namespace}::'
PushedPrefix(fqn_prefix, namespace) == fqn_prefix \o namespace \o <<":",":">>

\* A call of _generate_exports_impl(name_map) on the map at path scope: line
\* 36 reads the prefix, lines 37 and 39 sort; order is the iteration order of
\* the top_level set.
GenCall(scope, order) ==
  [scope |-> scope,
   fqn_prefix |-> fqn_prefix_stack'[Len(fqn_prefix_stack')],
   top_level |-> Sorted(order),
   qualified |-> Sorted(name_map[scope].qualified)]

GenTop == gen_frames[Len(gen_frames)]
Generating == pc = "generate" /\ gen_frames # <<>>

\* main, lines 122-123, and generate_exports_from_name_map, lines 32, 46, 47.
GenerateExports ==
  /\ pc = "collected"
  /\ pc' = "generate"
  /\ out' = <<ExportOpen>>
  /\ fqn_prefix_stack' = <<GlobalPrefix>>
  /\ \E order \in IterationOrders(name_map[Root].top_level) :
       gen_frames' = <<GenCall(Root, order)>>
  /\ UNCHANGED <<input, collector>>

\* Lines 37-38: the next name of the sorted top_level.
WriteUsing ==
  /\ Generating
  /\ GenTop.top_level # <<>>
  /\ out' = Append(out, Using(GenTop.fqn_prefix, Head(GenTop.top_level)))
  /\ gen_frames' = [gen_frames EXCEPT ![Len(gen_frames)].top_level = Tail(@)]
  /\ UNCHANGED <<input, collector, pc, fqn_prefix_stack>>

\* Lines 39-42: the next namespace of the sorted qualified items.
OpenNamespace ==
  /\ Generating
  /\ GenTop.top_level = <<>>
  /\ GenTop.qualified # <<>>
  /\ LET namespace == Head(GenTop.qualified) IN
       /\ out' = Append(out, NamespaceOpen(namespace))
       /\ fqn_prefix_stack' =
            Append(fqn_prefix_stack, PushedPrefix(GenTop.fqn_prefix, namespace))
       /\ \E order \in
              IterationOrders(name_map[Append(GenTop.scope, namespace)].top_level) :
            gen_frames' =
              Append([gen_frames EXCEPT ![Len(gen_frames)].qualified = Tail(@)],
                     GenCall(Append(GenTop.scope, namespace), order))
  /\ UNCHANGED <<input, collector, pc>>

\* Lines 43-44: the inner call returned.
CloseNamespace ==
  /\ Generating
  /\ GenTop.top_level = <<>>
  /\ GenTop.qualified = <<>>
  /\ Len(gen_frames) > 1
  /\ gen_frames' = SubSeq(gen_frames, 1, Len(gen_frames) - 1)
  /\ fqn_prefix_stack' = SubSeq(fqn_prefix_stack, 1, Len(fqn_prefix_stack) - 1)
  /\ out' = Append(out, BlockClose)
  /\ UNCHANGED <<input, collector, pc>>

\* Line 48: the outermost call returned.
FinishExports ==
  /\ Generating
  /\ GenTop.top_level = <<>>
  /\ GenTop.qualified = <<>>
  /\ Len(gen_frames) = 1
  /\ gen_frames' = <<>>
  /\ out' = Append(out, ExportClose)
  /\ pc' = "done"
  /\ UNCHANGED <<input, collector, fqn_prefix_stack>>

-----------------------------------------------------------------------------
Next ==
  \/ CollectNames
  \/ TraverseExcluded
  \/ TraverseNoFile
  \/ TraverseInvalidSpelling
  \/ TraverseIgnoredNamespace
  \/ TraverseNamespace
  \/ TraverseIgnoredName
  \/ TraverseLeaf
  \/ TraverseOther
  \/ ReturnNamespace
  \/ ReturnOther
  \/ CollectReturn
  \/ GenerateExports
  \/ WriteUsing
  \/ OpenNamespace
  \/ CloseNamespace
  \/ FinishExports

Spec == Init /\ [][Next]_vars

-----------------------------------------------------------------------------
\* main called with any include directory and any origin path: every node of
\* the header is the same declaration, from the same file.

MaxPathLen == 2

PathChars == {"i", "u", "."}

PathStrings(n) == UNION { [1..k -> PathChars] : k \in 1..n }

InitPath ==
  /\ include_path \in PathStrings(MaxPathLen)
  /\ \E d \in Decls \cup Exprs \cup Operators, p \in PathStrings(MaxPathLen + 1) \cup {None} :
       tree = [n \in Nodes |-> Cursor(d.kind, d.spelling, p)]
  /\ Constructed

SpecPath == InitPath /\ [][Next]_vars

-----------------------------------------------------------------------------
\* Reading the state

\* The nodes _traverse was called on.
Visited == { trace[i].node : i \in 1..Len(trace) }

\* A namespace the collector accepts.
Accepted(c) ==
  /\ Included(c)
  /\ c.kind = "NAMESPACE"
  /\ IDENTIFIER_REGEX(c.spelling)
  /\ ~ignored_namespaces_regex(c.spelling)

\* A declaration the collector only looks through.
PassThrough(c) == Included(c) /\ ~Named(c)

\* A leaf the collector records.
Exported(c) ==
  /\ Included(c)
  /\ c.kind \in COMMON_DECL_KINDS
  /\ IDENTIFIER_REGEX(c.spelling)
  /\ ~ignored_names_regex(c.spelling)

\* The origin path is there and is outside includePathPattern.
PathMismatch(c) ==
  c.file # None /\ ~RegexSearch(include_paths_regex, c.file)

IsAcceptedNode(n) == Accepted(tree[n])

\* The spellings of the accepted namespaces among q's nodes.
NamespaceSpellings(q) ==
  LET ns == SelectSeq(q, IsAcceptedNode)
  IN  [i \in 1..Len(ns) |-> tree[ns[i]].spelling]

\* The namespace path of the scope n is declared in, and of the scope n opens.
ScopeOf(n) == NamespaceSpellings(AncestorTable[n])
ScopeIn(n) ==
  IF n = 0 THEN Root ELSE NamespaceSpellings(Append(AncestorTable[n], n))

\* Every name the Name Tree holds, as a leaf or as a namespace.
TreeNames ==
  UNION { name_map[p].top_level \cup Range(name_map[p].qualified) :
          p \in DOMAIN name_map }

IsUsing(line) ==
  /\ StartsWith(line, <<"u","s","i","n","g"," ">>)
  /\ EndsWith(line, <<";","\n">>)
  /\ Len(line) >= 8

IsNamespaceOpen(line) ==
  /\ StartsWith(line, <<"n","a","m","e","s","p","a","c","e"," ">>)
  /\ EndsWith(line, <<" ","{","\n">>)
  /\ Len(line) >= 13

\* What a using statement names, qualified.
UsingName(line) == SubSeq(line, 7, Len(line) - 2)

NamespaceName(line) == SubSeq(line, 11, Len(line) - 3)

\* The part of a qualified name behind its last "::".
Unqualified(fqn) ==
  LET colons == { i \in 1..Len(fqn) : fqn[i] = ":" }
      last == IF colons = {} THEN 0
              ELSE CHOOSE i \in colons : \A j \in colons : j <= i
  IN  SubSeq(fqn, last + 1, Len(fqn))

\* The unqualified names the output holds, in statements of either form.
OutNames ==
  { Unqualified(UsingName(out[i])) : i \in { k \in 1..Len(out) : IsUsing(out[k]) } }
    \cup
  { NamespaceName(out[i]) : i \in { k \in 1..Len(out) : IsNamespaceOpen(out[k]) } }

\* The namespace blocks open behind the first k writes, outermost first.
RECURSIVE OpenBlocks(_)
OpenBlocks(k) ==
  IF k = 0 THEN <<>>
  ELSE LET before == OpenBlocks(k - 1) IN
       IF IsNamespaceOpen(out[k]) THEN Append(before, NamespaceName(out[k]))
       ELSE IF out[k] = BlockClose /\ before # <<>>
         THEN SubSeq(before, 1, Len(before) - 1)
       ELSE before

\* ::N1::...::Nk::
RECURSIVE Qualifier(_)
Qualifier(blocks) ==
  IF blocks = <<>> THEN <<":",":">>
  ELSE Qualifier(SubSeq(blocks, 1, Len(blocks) - 1))
         \o blocks[Len(blocks)] \o <<":",":">>

Collected == pc \in {"collected", "generate", "done"}

\* Each declaration spelled like n is a node of Bad or below one.
OnlyAtOrBelow(n, Bad) ==
  \A m \in Nodes :
    tree[m].spelling = tree[n].spelling =>
      ({m} \cup Ancestors(m)) \cap Bad # {}
-----------------------------------------------------------------------------
\* Path filtering

\* The visited nodes whose origin path is outside includePathPattern.
ExcludedNodes == { n \in Visited : PathMismatch(tree[n]) }

C1_Always ==
  /\ \A n \in ExcludedNodes : Descendants(n) \cap Visited = {}
  /\ \A n \in Nodes :
       OnlyAtOrBelow(n, ExcludedNodes) =>
         tree[n].spelling \notin TreeNames \cup OutNames

\* C1: a visited node whose origin path does not match includePathPattern,
\* of whatever kind, leaves the Name Tree and the scope stack as they are,
\* none of its descendants is visited, and a name declared only at or below
\* such nodes is neither in the Name Tree nor in the output.
C1_PathFiltering ==
  /\ []C1_Always
  /\ [][(Called /\ PathMismatch(tree[Child])) =>
          (name_map' = name_map /\ name_map_stack' = name_map_stack)]_vars

\* A namespace from another file was visited; a struct that passes every
\* filter is declared only inside it; the output is complete.
C1_Witness ==
  /\ pc = "done"
  /\ \E n \in ExcludedNodes, d \in Nodes :
       /\ d \in Descendants(n)
       /\ Exported(tree[d])
       /\ OnlyAtOrBelow(d, ExcludedNodes)

-----------------------------------------------------------------------------
\* Origin path absent

\* C2: a declaration whose cursor.location.file is None is treated as not
\* matching: no error, nothing recorded, children not visited, and the walk
\* goes on to the next sibling.
C2_AbsentPathExcluded ==
  /\ pc # "error"
  /\ \A t \in 1..Len(trace) :
       (IsDeclaration(tree[trace[t].node].kind) /\ tree[trace[t].node].file = None)
         => trace[t].result = "excluded"

-----------------------------------------------------------------------------
\* Namespace pruning

\* The visited namespaces whose spelling matches ignoredNamespacePattern.
IgnoredNodes ==
  { n \in Visited : /\ tree[n].kind = "NAMESPACE"
                    /\ ignored_namespaces_regex(tree[n].spelling) }

C3_Always ==
  /\ \A n \in IgnoredNodes :
       /\ Descendants(n) \cap Visited = {}
       /\ \A p \in DOMAIN name_map :
            /\ ~HasKey(name_map, p, tree[n].spelling)
            /\ Append(p, tree[n].spelling) \notin DOMAIN name_map
  /\ \A n \in Nodes :
       OnlyAtOrBelow(n, IgnoredNodes) =>
         tree[n].spelling \notin TreeNames \cup OutNames

\* C3: a visited namespace whose spelling matches ignoredNamespacePattern
\* gets no Name Tree node and pushes no scope, none of its descendants is
\* visited, and neither it nor a declaration found only inside it is in the
\* Name Tree or in the output.
C3_NamespacePruning ==
  /\ []C3_Always
  /\ [][(/\ Called
         /\ tree[Child].kind = "NAMESPACE"
         /\ ignored_namespaces_regex(tree[Child].spelling)) =>
          (name_map' = name_map /\ name_map_stack' = name_map_stack)]_vars

\* namespace std of the header itself was visited, with a declaration that
\* passes every filter found only inside it; the output is complete.
C3_Witness ==
  /\ pc = "done"
  /\ \E n \in IgnoredNodes, d \in Nodes :
       /\ Included(tree[n])
       /\ d \in Descendants(n)
       /\ Exported(tree[d]) \/ Accepted(tree[d])
       /\ OnlyAtOrBelow(d, IgnoredNodes)

-----------------------------------------------------------------------------
\* Namespace merging

\* The _traverse calls on accepted namespaces spelled s, made in scope p.
Openings(p, s) ==
  { t \in 1..Len(trace) : /\ trace[t].scope = p
                          /\ Accepted(tree[trace[t].node])
                          /\ tree[trace[t].node].spelling = s }

-----------------------------------------------------------------------------
\* Leaf opacity

\* Each declaration spelled like n is a member of a node of a leaf kind.
OnlyInsideLeaves(n) ==
  \A m \in Nodes :
    tree[m].spelling = tree[n].spelling =>
      \E a \in Ancestors(m) : tree[a].kind \in COMMON_DECL_KINDS

\* C5: the children of a node of a leaf kind are never visited, whether the
\* leaf was recorded or skipped, and a name declared only as a member of
\* such nodes is neither in the Name Tree nor in the output.
C5_LeafOpacity ==
  /\ \A n \in Nodes :
       tree[n].kind \in COMMON_DECL_KINDS => Descendants(n) \cap Visited = {}
  /\ \A n \in Nodes :
       OnlyInsideLeaves(n) => tree[n].spelling \notin TreeNames \cup OutNames

\* A leaf was recorded; it has a member that passes every filter, whose name
\* is declared nowhere else; the output is complete.
C5_Witness ==
  /\ pc = "done"
  /\ \E n \in Visited, d \in Nodes :
       /\ Exported(tree[n])
       /\ Parent(d) = n
       /\ Exported(tree[d])
       /\ OnlyInsideLeaves(d)

-----------------------------------------------------------------------------
\* Completeness

\* n is a leaf that passes every filter below accepted namespaces and
\* pass-through declarations only.
Reachable(n) ==
  /\ Exported(tree[n])
  /\ \A a \in Ancestors(n) : Accepted(tree[a]) \/ PassThrough(tree[a])

\* C6: once collect_names has returned, every leaf that passes the filters
\* and whose ancestors are all accepted namespaces or pass-through
\* declarations is in top_level of the map its namespace ancestors address.
C6_Completeness ==
  Collected =>
    \A n \in Nodes :
      Reachable(n) =>
        /\ ScopeOf(n) \in DOMAIN name_map
        /\ tree[n].spelling \in name_map[ScopeOf(n)].top_level

\* collect_names returned on a header with a leaf below a pass-through
\* declaration inside a namespace.
C6_Witness ==
  /\ Collected
  /\ \E n \in Nodes, a, b \in Nodes :
       /\ Reachable(n)
       /\ a \in Ancestors(n) /\ Accepted(tree[a])
       /\ b \in Ancestors(n) /\ PassThrough(tree[b])

-----------------------------------------------------------------------------
\* The include directory as a pattern

\* C7: a declaration whose origin path does not literally start with the
\* include directory is excluded, so every name of the Name Tree has a
\* declaration whose origin path starts with it.
C7_LiteralPrefix ==
  \A s \in TreeNames :
    \E n \in Nodes :
      /\ tree[n].spelling = s
      /\ tree[n].file # None
      /\ StartsWith(tree[n].file, include_path)
-----------------------------------------------------------------------------
\* Sort order

\* The namespace blocks write k is made in.
Context(k) == OpenBlocks(k - 1)

NotAfter(s, t) == ~StrLess(StrLower(t), StrLower(s))

\* C8: in every scope of the output the using statements come in
\* non-decreasing order of the lowercase name, the namespace blocks in
\* non-decreasing order of the lowercase namespace name, and every using
\* statement before the first namespace block.
C8_SortOrder ==
  \A i, j \in 1..Len(out) :
    (i < j /\ Context(i) = Context(j)) =>
      /\ (IsUsing(out[i]) /\ IsUsing(out[j])) =>
           NotAfter(Unqualified(UsingName(out[i])), Unqualified(UsingName(out[j])))
      /\ (IsNamespaceOpen(out[i]) /\ IsNamespaceOpen(out[j])) =>
           NotAfter(NamespaceName(out[i]), NamespaceName(out[j]))
      /\ ~(IsNamespaceOpen(out[i]) /\ IsUsing(out[j]))

\* The complete output has, in one scope, two using statements whose names
\* are in the other order by code point ("a" before "B").
C8_Witness ==
  /\ pc = "done"
  /\ \E i, j \in 1..Len(out) :
       /\ i < j /\ Context(i) = Context(j)
       /\ IsUsing(out[i]) /\ IsUsing(out[j])
       /\ StrLess(Unqualified(UsingName(out[j])), Unqualified(UsingName(out[i])))

-----------------------------------------------------------------------------
\* Scope stack

\* Root, and every longer prefix of the namespace path p.
Prefixes(p) == [i \in 1..(Len(p) + 1) |-> SubSeq(p, 1, i - 1)]

C9_Always ==
  /\ name_map_stack # <<>>
  /\ name_map_stack[1] = Root
  /\ \A i \in 1..Len(name_map_stack) : name_map_stack[i] \in DOMAIN name_map
  /\ (pc \in {"collect", "error"} /\ frames # <<>>) =>
       name_map_stack = Prefixes(ScopeIn(Top.node))
  /\ \A t \in 1..Len(trace) : trace[t].scope = ScopeOf(trace[t].node)
  /\ Collected => name_map_stack = <<Root>>

\* C9: during collect_names the scope stack is the root map followed by the
\* maps of the accepted namespaces around the node being visited; only
\* entering an accepted namespace pushes, only leaving one pops; leaves,
\* pruned nodes and pass-through nodes leave it alone; when collect_names
\* returns it holds the root alone.
C9_ScopeStack ==
  /\ []C9_Always
  /\ [][name_map_stack' # name_map_stack =>
          \/ /\ Called
             /\ Accepted(tree[Child])
             /\ name_map_stack' =
                  Append(name_map_stack,
                         Append(CurrentScope, tree[Child].spelling))
          \/ /\ Returning
             /\ Accepted(tree[Top.node])
             /\ name_map_stack' =
                  SubSeq(name_map_stack, 1, Len(name_map_stack) - 1)]_vars

\* The walk is inside a pass-through declaration inside two nested
\* namespaces.
C9_Witness ==
  /\ pc = "collect"
  /\ frames # <<>>
  /\ Top.node # 0
  /\ PassThrough(tree[Top.node])
  /\ Len(name_map_stack) = 3

-----------------------------------------------------------------------------
\* Shape of the output

C10_Always ==
  /\ out # <<>> => out[1] = ExportOpen
  /\ \A k \in 2..Len(out) :
       \/ /\ IsUsing(out[k])
          /\ out[k] = Using(Qualifier(Context(k)), Unqualified(UsingName(out[k])))
          /\ Context(k) \in DOMAIN name_map
          /\ Unqualified(UsingName(out[k])) \in name_map[Context(k)].top_level
       \/ /\ IsNamespaceOpen(out[k])
          /\ OpenBlocks(k) \in DOMAIN name_map
       \/ /\ out[k] = BlockClose
          /\ Context(k) # <<>>
       \/ /\ out[k] = ExportClose
          /\ k = Len(out)
          /\ Context(k) = <<>>
          /\ pc = "done"
  /\ pc = "generate" =>
       /\ Len(fqn_prefix_stack) = Len(OpenBlocks(Len(out))) + 1
       /\ fqn_prefix_stack[Len(fqn_prefix_stack)] = Qualifier(OpenBlocks(Len(out)))
  /\ pc = "done" =>
       /\ out[Len(out)] = ExportClose
       /\ fqn_prefix_stack = <<GlobalPrefix>>

\* C10: the output is `export {`, then only using statements and namespace
\* blocks, then `}`; every block is closed before the export block is; a
\* using statement inside blocks N1..Nk reads `using ::N1::...::Nk::name;`;
\* the prefix stack ends as the global prefix alone; the Name Tree is not
\* modified.
C10_ExportBlock ==
  /\ []C10_Always
  /\ [][(pc \in {"collected", "generate"}) => (name_map' = name_map)]_vars

\* The complete output has a using statement inside two nested namespace
\* blocks.
C10_Witness ==
  /\ pc = "done"
  /\ \E k \in 1..Len(out) : IsUsing(out[k]) /\ Len(Context(k)) = 2

====
